---- MODULE Spec2Model ----
(***************************************************************************)
(* Tabu search over the TSP (src/tsp/solutions.py,                         *)
(* src/ts/tsp/neighborhoods/reverse.py) and the initial construction of    *)
(* the drone-and-truck problem (src/ts/d2d/solutions.py).                  *)
(*                                                                         *)
(* Python sequences are 0-based: a tuple indexed by city is a TLA+         *)
(* function over 0..dimension-1; a list that is only appended to and       *)
(* walked (a path, a segment, a deque) is a TLA+ sequence.  None is the    *)
(* empty tuple <<>> for a pair and NoSolution for a solution.              *)
(***************************************************************************)
EXTENDS Integers, Sequences, FiniteSets, TLC

(***************************************************************************)
(* Bounds of the model.                                                    *)
(***************************************************************************)
MinDim == 5
MaxDim == 6
MaxSeed == 1
MaxSegLen == 6
MaxPool == 2
MaxCalls == 2
MaxReset == 1
MaxTargets == 3
MaxTabuCalls == 4
MaxCustomers == 3
MaxDrones == 2
MaxTechnicians == 2
MaxCapacity == 2
MaxDemand == 2
MaxTimesCustomers == 2
MaxServiceTime == 1
MaxRouteLen == 4
MaxRoutes == 2
MaxOffset == 2
MaxStep == 2
MaxTimesCalls == 1
MaxPoolCalls == 1
MaxTabuLen == 2
MaxSearchCalls == 4

VARIABLES
    dimension,      \* PathSolution.dimension
    x, y,           \* PathSolution.x, PathSolution.y
    distances,      \* PathSolution.distances
    solution,       \* the driver's current PathSolution: [after, before, cost]
    maxlen,         \* _maxlen of each neighborhood class
    tabu_list,      \* _tabu_list of each neighborhood class
    tabu_set,       \* _tabu_set of each neighborhood class
    calls,          \* number of calls made so far
    last,           \* the last call: its arguments, the state it saw, its result
    problem,        \* D2DPathSolution's problem and configuration data
    pc,             \* where D2DPathSolution.initial is
    technician_paths,       \* initial's technician_paths
    technician_only,        \* initial's technician_only
    technician_paths_iter,  \* the position of itertools.cycle(technician_paths)
    drone_paths,            \* initial's drone_paths
    dronable,               \* initial's dronable
    drone_iter,             \* the position of itertools.cycle(range(drones_count))
    returned,               \* the D2DPathSolution initial returns
    pool,                   \* the worker pool of SegmentReverse.find_best_candidate
    selected                \* per class, the signatures selected since its last reset_tabu

tsp_vars == <<dimension, x, y, distances, solution, last>>

tabu_vars == <<maxlen, tabu_list, tabu_set>>

d2d_vars == <<problem, pc, technician_paths, technician_only, technician_paths_iter,
              drone_paths, dronable, drone_iter, returned>>

vars == <<tsp_vars, tabu_vars, calls, d2d_vars, pool, selected>>

Classes == {"Swap", "SegmentShift", "SegmentReverse"}

DefaultMaxlen == 100

Abs(v) == IF v < 0 THEN -v ELSE v

Last(s) == s[Len(s)]

NoSolution == [after |-> <<>>, before |-> <<>>, cost |-> 0]

IsNone(s) == s.after = <<>>

(***************************************************************************)
(* PathSolution.import_problem: the distance matrix of an EUC_2D instance. *)
(***************************************************************************)
import_distances(xs, ys, n) ==
    [i \in 0..(n - 1) |-> [j \in 0..(n - 1) |->
        Abs(xs[i] - xs[j]) + Abs(ys[i] - ys[j])]]

(***************************************************************************)
(* PathSolution.cost when no cost is memoized: the walk from city 0 along  *)
(* after.  A walk over a function on dimension cities that has not come    *)
(* back to 0 after dimension steps never does: the Python loop does not    *)
(* terminate, which is the value -1 here.                                  *)
(***************************************************************************)
RECURSIVE cost_walk(_, _, _, _, _)
cost_walk(aft, lst, current, result, steps) ==
    IF current = 0 THEN result + distances[lst][current]
    ELSE IF steps = 0 THEN -1
    ELSE cost_walk(aft, current, aft[current], result + distances[lst][current], steps - 1)

recomputed_cost(aft) == cost_walk(aft, 0, aft[0], 0, dimension)

(***************************************************************************)
(* PathSolution.get_path: the cities from 0 along after until 0 is met     *)
(* again; <<>> when the loop does not terminate.                           *)
(***************************************************************************)
RECURSIVE path_walk(_, _, _, _)
path_walk(aft, path, current, steps) ==
    IF current = 0 THEN path
    ELSE IF steps = 0 THEN <<>>
    ELSE path_walk(aft, Append(path, current), aft[current], steps - 1)

get_path(sol) == path_walk(sol.after, <<0>>, sol.after[0], dimension)

(***************************************************************************)
(* BaseSolution.__lt__ as find_best_candidate uses it: by cost.            *)
(***************************************************************************)
solution_less(a, b) == a.cost < b.cost

(***************************************************************************)
(* PathSolution.initial: nearest-neighbour paths.  min() over a set keeps  *)
(* the first minimum in the set's iteration order, which the language does *)
(* not fix: every nearest city is a possible choice.                       *)
(***************************************************************************)
nearest(cities, current, dist) ==
    {c \in cities : \A o \in cities : dist[current][c] <= dist[current][o]}

RECURSIVE initial_paths(_, _, _)
initial_paths(path, cities, dist) ==
    IF cities = {} THEN {path}
    ELSE UNION {initial_paths(Append(path, c), cities \ {c}, dist) :
                    c \in nearest(cities, Last(path), dist)}

initial_links(path, n) ==
    [after  |-> [c \in 0..(n - 1) |->
                    LET k == CHOOSE k \in 1..n : path[k] = c IN path[(k % n) + 1]],
     before |-> [c \in 0..(n - 1) |->
                    LET k == CHOOSE k \in 1..n : path[k] = c IN path[((k - 2 + n) % n) + 1]]]

(***************************************************************************)
(* _BasePathNeighborhood.remove_from_tabu, add_to_tabu, reset_tabu.        *)
(* A tabu state is [list, set]; popleft of an empty deque raises           *)
(* IndexError, which leaves the state as it is.                            *)
(***************************************************************************)
(* remove_from_tabu with an if for its while: one eviction at most. *)
remove_once(t, cap) ==
    IF Cardinality(t.set) > cap /\ t.list # <<>>
    THEN [list |-> Tail(t.list), set |-> t.set \ {Head(t.list)}]
    ELSE t

(* remove_from_tabu evicting already at capacity: >= for >. *)
RECURSIVE remove_eagerly(_, _)
remove_eagerly(t, cap) ==
    IF Cardinality(t.set) >= cap /\ t.list # <<>>
    THEN remove_eagerly([list |-> Tail(t.list), set |-> t.set \ {Head(t.list)}], cap)
    ELSE t

RECURSIVE remove_from_tabu(_, _)
remove_from_tabu(t, cap) ==
    IF Cardinality(t.set) > cap /\ t.list # <<>>
    THEN remove_from_tabu([list |-> Tail(t.list), set |-> t.set \ {Head(t.list)}], cap)
    ELSE t

add_to_tabu(t, target, cap) ==
    remove_from_tabu([list |-> Append(t.list, target), set |-> t.set \cup {target}], cap)

reset_tabu(t, cap) == remove_from_tabu(t, cap)

(***************************************************************************)
(* SwapNeighborhood.swap: the delta cost (lines 213-219), then the links.  *)
(***************************************************************************)
(* swap's delta with the four edges at b's old place left out. *)
swap_cost_one_sided(sol, a, b, before_x, before_y, after_x, after_y) ==
    sol.cost
    + distances[before_x][b] + distances[b][after_x]
    - distances[before_x][a] - distances[a][after_x]

swap_cost(sol, a, b, before_x, before_y, after_x, after_y) ==
    sol.cost
    + distances[before_x][b] + distances[b][after_x]
    + distances[before_y][a] + distances[a][after_y]
    - distances[before_x][a] - distances[a][after_x]
    - distances[before_y][b] - distances[b][after_y]

swap(sol, a, b) ==
    LET before_x == sol.before[a]
        before_y == sol.before[b]
        after_x  == sol.after[a]
        after_y  == sol.after[b]
        cost == swap_cost(sol, a, b, before_x, before_y, after_x, after_y)
        before1 == [[sol.before EXCEPT ![a] = before_y] EXCEPT ![b] = before_x]
        after1  == [[sol.after EXCEPT ![a] = after_y] EXCEPT ![b] = after_x]
        after2  == [after1 EXCEPT ![before_x] = b]
        before2 == [before1 EXCEPT ![after_x] = b]
        after3  == [after2 EXCEPT ![before_y] = a]
        before3 == [before2 EXCEPT ![after_y] = a]
    IN [after |-> after3, before |-> before3, cost |-> cost]

(***************************************************************************)
(* The skip test of SwapNeighborhood.find_best_candidate (line 236).       *)
(***************************************************************************)
swap_skipped(sol, first, second) ==
    \/ sol.after[first] = second
    \/ sol.after[second] = first
    \/ sol.after[sol.after[first]] = second
    \/ sol.after[sol.after[second]] = first

(***************************************************************************)
(* itertools.combinations(range(dimension), 2), in its order.              *)
(***************************************************************************)
RECURSIVE combinations(_, _, _)
combinations(first, second, n) ==
    IF first >= n - 1 THEN <<>>
    ELSE IF second >= n THEN combinations(first + 1, first + 2, n)
    ELSE <<(<<first, second>>)>> \o combinations(first, second + 1, n)

(***************************************************************************)
(* The selection loop shared by the find_best_candidate methods: a         *)
(* candidate replaces the result only when it is strictly less.            *)
(* state is [result, min_pair].                                            *)
(***************************************************************************)
(* The selection with <= for <: the last of equally good candidates wins. *)
keep_latest(state, candidate, pair) ==
    IF IsNone(state.result) \/ candidate.cost <= state.result.cost
    THEN [result |-> candidate, min_pair |-> pair]
    ELSE state

keep_best(state, candidate, pair) ==
    IF IsNone(state.result) \/ solution_less(candidate, state.result)
    THEN [result |-> candidate, min_pair |-> pair]
    ELSE state

NoResult == [result |-> NoSolution, min_pair |-> <<>>]

(***************************************************************************)
(* SwapNeighborhood.find_best_candidate, up to the add_to_tabu.            *)
(***************************************************************************)
RECURSIVE swap_scan(_, _, _, _)
swap_scan(sol, tabu, pairs, state) ==
    IF pairs = <<>> THEN state
    ELSE LET pair == Head(pairs) IN
         IF swap_skipped(sol, pair[1], pair[2]) \/ pair \in tabu
         THEN swap_scan(sol, tabu, Tail(pairs), state)
         ELSE swap_scan(sol, tabu, Tail(pairs),
                        keep_best(state, swap(sol, pair[1], pair[2]), pair))

swap_find_best_candidate(sol, tabu) ==
    swap_scan(sol, tabu, combinations(0, 1, dimension), NoResult)

(***************************************************************************)
(* The segment of segment_length cities that starts at path position       *)
(* start, taken cyclically (solutions.py 301-303, reverse.py 64-66).       *)
(***************************************************************************)
segment_at(path, start, segment_length) ==
    [d \in 1..segment_length |-> path[((start + d - 1) % dimension) + 1]]

in_segment(segment, city) == \E d \in 1..Len(segment) : segment[d] = city

(***************************************************************************)
(* SegmentShift.insert_after                                               *)
(***************************************************************************)
insert_after(sol, segment, target) ==
    LET before_segment == sol.before[segment[1]]
        after_segment  == sol.after[Last(segment)]
        after_x        == sol.after[target]
        cost == sol.cost
                + distances[before_segment][after_segment]
                + distances[target][segment[1]] + distances[Last(segment)][after_x]
                - distances[before_segment][segment[1]] - distances[Last(segment)][after_segment]
                - distances[target][after_x]
        after1  == [sol.after EXCEPT ![before_segment] = after_segment]
        before1 == [sol.before EXCEPT ![after_segment] = before_segment]
        after2  == [after1 EXCEPT ![target] = segment[1]]
        before2 == [before1 EXCEPT ![segment[1]] = target]
        after3  == [after2 EXCEPT ![Last(segment)] = after_x]
        before3 == [before2 EXCEPT ![after_x] = Last(segment)]
    IN [after |-> after3, before |-> before3, cost |-> cost]

(***************************************************************************)
(* The target test of SegmentShift.find_best_candidate (line 306).         *)
(***************************************************************************)
shift_target_ok(sol, segment, target) ==
    /\ target # sol.before[segment[1]]
    /\ target # sol.after[Last(segment)]
    /\ ~in_segment(segment, target)

(***************************************************************************)
(* SegmentShift.find_best_candidate, up to the add_to_tabu.  k counts the  *)
(* iterations of the two nested loops: start = k \div dimension, target =  *)
(* k % dimension.                                                          *)
(***************************************************************************)
RECURSIVE shift_scan(_, _, _, _, _, _)
shift_scan(sol, tabu, path, segment_length, k, state) ==
    IF k >= dimension * dimension THEN state
    ELSE LET segment == segment_at(path, k \div dimension, segment_length)
             target  == k % dimension
             pair    == <<segment[1], target>>
         IN IF shift_target_ok(sol, segment, target) /\ pair \notin tabu
            THEN shift_scan(sol, tabu, path, segment_length, k + 1,
                            keep_best(state, insert_after(sol, segment, target), pair))
            ELSE shift_scan(sol, tabu, path, segment_length, k + 1, state)

shift_find_best_candidate(sol, tabu, segment_length) ==
    IF dimension + 2 < segment_length THEN NoResult
    ELSE shift_scan(sol, tabu, get_path(sol), segment_length, 0, NoResult)

(***************************************************************************)
(* SegmentReverse.reverse                                                  *)
(***************************************************************************)
RECURSIVE flip_links(_, _, _)
flip_links(links, segment, d) ==
    IF d > Len(segment) THEN links
    ELSE LET index == segment[d] IN
         flip_links([before |-> [links.before EXCEPT ![index] = links.after[index]],
                     after  |-> [links.after EXCEPT ![index] = links.before[index]]],
                    segment, d + 1)

reverse(sol, segment) ==
    LET before_segment == sol.before[segment[1]]
        after_segment  == sol.after[Last(segment)]
        cost == sol.cost
                + distances[before_segment][Last(segment)] + distances[segment[1]][after_segment]
                - distances[before_segment][segment[1]] - distances[Last(segment)][after_segment]
        flipped == flip_links([before |-> sol.before, after |-> sol.after], segment, 1)
        before1 == [flipped.before EXCEPT ![Last(segment)] = before_segment]
        after1  == [flipped.after EXCEPT ![before_segment] = Last(segment)]
        before2 == [before1 EXCEPT ![after_segment] = segment[1]]
        after2  == [after1 EXCEPT ![segment[1]] = after_segment]
    IN [after |-> after2, before |-> before2, cost |-> cost]

(***************************************************************************)
(* SegmentReverse.find_best_candidate, lines 60-68: the segments handed to *)
(* each worker, start position by start position, round robin.             *)
(***************************************************************************)
RECURSIVE partition(_, _, _, _, _)
partition(args, path, segment_length, pool_size, start) ==
    IF start >= dimension THEN args
    ELSE partition([args EXCEPT ![start % pool_size] =
                        Append(@, segment_at(path, start, segment_length))],
                   path, segment_length, pool_size, start + 1)

worker_args(sol, segment_length, pool_size) ==
    partition([w \in 0..(pool_size - 1) |-> <<>>], get_path(sol), segment_length, pool_size, 0)

(***************************************************************************)
(* SegmentReverse.static_find_best_candidate: one worker's scan.           *)
(***************************************************************************)
RECURSIVE static_scan(_, _, _)
static_scan(sol, data, state) ==
    IF data = <<>> THEN state
    ELSE LET segment == Head(data) IN
         static_scan(sol, Tail(data),
                     keep_best(state, reverse(sol, segment), <<segment[1], Last(segment)>>))

static_find_best_candidate(sol, data) == static_scan(sol, data, NoResult)

(***************************************************************************)
(* SegmentReverse.find_best_candidate, lines 70-78: the reduction of the   *)
(* workers' results, in the order pool.map returns them.                   *)
(***************************************************************************)
RECURSIVE reduce_results(_, _, _, _, _)
reduce_results(sol, args, pool_size, w, state) ==
    IF w >= pool_size THEN state
    ELSE LET temp == static_find_best_candidate(sol, args[w]) IN
         IF IsNone(temp.result) \/ temp.min_pair = <<>>
         THEN reduce_results(sol, args, pool_size, w + 1, state)
         ELSE reduce_results(sol, args, pool_size, w + 1,
                             keep_best(state, temp.result, temp.min_pair))

reverse_find_best_candidate(sol, segment_length, pool_size) ==
    reduce_results(sol, worker_args(sol, segment_length, pool_size), pool_size, 0, NoResult)

(***************************************************************************)
(* A solution whose path can be taken: get_path terminates and has         *)
(* dimension cities.  On any other solution SegmentShift and               *)
(* SegmentReverse.find_best_candidate do not return: get_path loops, or    *)
(* path[(index + d) % dimension] raises IndexError.                        *)
(***************************************************************************)
path_complete(sol) == Len(get_path(sol)) = dimension

(***************************************************************************)
(* The instances: dimension cities on a small grid, one layout per seed.   *)
(***************************************************************************)
seed_x(seed, n) == [i \in 0..(n - 1) |-> (i * (seed + 2)) % 7]

seed_y(seed, n) == [i \in 0..(n - 1) |-> (i * i + seed) % 3]

(***************************************************************************)
(* No pool.map of SegmentReverse.find_best_candidate under way.            *)
(***************************************************************************)
NoPool == [phase |-> "idle", segment_length |-> 0, pool_size |-> 0, solution |-> NoSolution,
           args |-> <<>>, position |-> <<>>, found |-> <<>>, returned |-> <<>>,
           out_of_order |-> FALSE]

(***************************************************************************)
(* No find_best_candidate has selected a candidate yet.                    *)
(***************************************************************************)
NoneSelected == [c \in Classes |-> <<>>]

NoCall == [op |-> "none", segment_length |-> 0, pool_size |-> 0, source |-> NoSolution,
           tabu |-> {}, result |-> NoSolution, min_pair |-> <<>>, accepted |-> FALSE]

(***************************************************************************)
(* The class attributes of the three neighborhood classes as declared      *)
(* (solutions.py 198-200, 257-259; reverse.py 22-24).                      *)
(***************************************************************************)
TabuDeclared ==
    /\ maxlen = [c \in Classes |-> DefaultMaxlen]
    /\ tabu_list = [c \in Classes |-> <<>>]
    /\ tabu_set = [c \in Classes |-> {}]

(***************************************************************************)
(* A TSP instance imported and PathSolution.initial() taken.               *)
(***************************************************************************)
TSPLoaded ==
    /\ dimension \in MinDim..MaxDim
    /\ \E seed \in 0..MaxSeed :
        /\ x = seed_x(seed, dimension)
        /\ y = seed_y(seed, dimension)
    /\ distances = import_distances(x, y, dimension)
    /\ \E path \in initial_paths(<<0>>, 1..(dimension - 1), distances) :
        LET links == initial_links(path, dimension) IN
        solution = [after |-> links.after, before |-> links.before,
                    cost |-> cost_walk(links.after, 0, links.after[0], 0, dimension)]
    /\ last = NoCall

(***************************************************************************)
(* No TSP instance imported.                                               *)
(***************************************************************************)
TSPIdle ==
    /\ dimension = 0
    /\ x = <<>>
    /\ y = <<>>
    /\ distances = <<>>
    /\ solution = NoSolution
    /\ last = NoCall

(***************************************************************************)
(* No D2D problem imported.                                                *)
(***************************************************************************)
D2DIdle ==
    /\ problem = <<>>
    /\ pc = "idle"
    /\ technician_paths = <<>>
    /\ technician_only = {}
    /\ technician_paths_iter = 0
    /\ drone_paths = <<>>
    /\ dronable = {}
    /\ drone_iter = 0
    /\ returned = <<>>

Init == TSPLoaded /\ TabuDeclared /\ calls = 0 /\ pool = NoPool /\ selected = NoneSelected /\ D2DIdle

(***************************************************************************)
(* The end of every find_best_candidate: add_to_tabu(min_pair) when a      *)
(* candidate was selected.  The driver then keeps the candidate as its     *)
(* current solution or not.                                                *)
(***************************************************************************)
Finish(class, op, segment_length, pool_size, found, accept) ==
    /\ LET t == IF found.min_pair # <<>>
                THEN add_to_tabu([list |-> tabu_list[class], set |-> tabu_set[class]],
                                 found.min_pair, maxlen[class])
                ELSE [list |-> tabu_list[class], set |-> tabu_set[class]]
       IN /\ tabu_list' = [tabu_list EXCEPT ![class] = t.list]
          /\ tabu_set' = [tabu_set EXCEPT ![class] = t.set]
    /\ solution' = IF accept /\ ~IsNone(found.result) THEN found.result ELSE solution
    /\ last' = [op |-> op, segment_length |-> segment_length, pool_size |-> pool_size,
                source |-> solution, tabu |-> tabu_set[class],
                result |-> found.result, min_pair |-> found.min_pair,
                accepted |-> accept /\ ~IsNone(found.result)]
    /\ selected' = IF found.min_pair # <<>>
                   THEN [selected EXCEPT ![class] = Append(@, found.min_pair)]
                   ELSE selected
    /\ calls' = calls + 1
    /\ UNCHANGED <<dimension, x, y, distances, maxlen, d2d_vars>>

SwapFindBest ==
    /\ calls < MaxCalls
    /\ UNCHANGED pool
    /\ \E accept \in BOOLEAN :
        Finish("Swap", "swap", 0, 0,
               swap_find_best_candidate(solution, tabu_set["Swap"]), accept)

ShiftFindBest ==
    /\ calls < MaxCalls
    /\ UNCHANGED pool
    /\ path_complete(solution)
    /\ \E segment_length \in 1..MaxSegLen, accept \in BOOLEAN :
        Finish("SegmentShift", "shift", segment_length, 0,
               shift_find_best_candidate(solution, tabu_set["SegmentShift"], segment_length),
               accept)

ReverseFindBest ==
    /\ calls < MaxCalls
    /\ UNCHANGED pool
    /\ path_complete(solution)
    /\ \E segment_length \in 3..MaxSegLen, pool_size \in 1..MaxPool, accept \in BOOLEAN :
        Finish("SegmentReverse", "reverse", segment_length, pool_size,
               reverse_find_best_candidate(solution, segment_length, pool_size), accept)

(***************************************************************************)
(* reset_tabu(maxlen=cap) on one class.                                    *)
(***************************************************************************)
DoResetTabu(class, cap) ==
    LET t == reset_tabu([list |-> tabu_list[class], set |-> tabu_set[class]], cap) IN
    /\ maxlen' = [maxlen EXCEPT ![class] = cap]
    /\ tabu_list' = [tabu_list EXCEPT ![class] = t.list]
    /\ tabu_set' = [tabu_set EXCEPT ![class] = t.set]
    /\ selected' = [selected EXCEPT ![class] = <<>>]

ResetTabu ==
    /\ calls < MaxCalls
    /\ \E class \in Classes, cap \in 0..MaxReset : DoResetTabu(class, cap)
    /\ calls' = calls + 1
    /\ UNCHANGED <<pool, tsp_vars, d2d_vars>>

Next == SwapFindBest \/ ShiftFindBest \/ ReverseFindBest \/ ResetTabu

Spec == Init /\ [][Next]_vars

(***************************************************************************)
(* The tabu manager on its own: add_to_tabu and reset_tabu called on the   *)
(* classes directly, with signatures that may repeat.                      *)
(***************************************************************************)
TabuTargets == {<<0, k>> : k \in 1..MaxTargets}

TabuInit == TSPIdle /\ TabuDeclared /\ calls = 0 /\ pool = NoPool /\ selected = NoneSelected /\ D2DIdle

TabuAdd ==
    /\ calls < MaxTabuCalls
    /\ \E class \in Classes, target \in TabuTargets :
        LET t == add_to_tabu([list |-> tabu_list[class], set |-> tabu_set[class]],
                             target, maxlen[class]) IN
        /\ tabu_list' = [tabu_list EXCEPT ![class] = t.list]
        /\ tabu_set' = [tabu_set EXCEPT ![class] = t.set]
        /\ maxlen' = maxlen
    /\ calls' = calls + 1
    /\ UNCHANGED <<pool, selected, tsp_vars, d2d_vars>>

TabuReset ==
    /\ calls < MaxTabuCalls
    /\ \E class \in Classes, cap \in 0..MaxReset : DoResetTabu(class, cap)
    /\ calls' = calls + 1
    /\ UNCHANGED <<pool, tsp_vars, d2d_vars>>

TabuNext == TabuAdd \/ TabuReset

TabuSpec == TabuInit /\ [][TabuNext]_vars

(***************************************************************************)
(* A valid tour: after and before are mutual inverses and the walk from    *)
(* city 0 along after comes back to 0 after visiting every city once.      *)
(***************************************************************************)
mutual_inverses(sol) ==
    \A i \in 0..(dimension - 1) :
        /\ sol.after[i] \in 0..(dimension - 1)
        /\ sol.before[i] \in 0..(dimension - 1)
        /\ sol.before[sol.after[i]] = i
        /\ sol.after[sol.before[i]] = i

single_cycle(sol) ==
    LET path == get_path(sol) IN
    /\ Len(path) = dimension
    /\ {path[k] : k \in 1..Len(path)} = 0..(dimension - 1)

valid_tour(sol) == mutual_inverses(sol) /\ single_cycle(sol)

true_cost(sol) == sol.cost = recomputed_cost(sol.after)

TypeOK ==
    /\ calls \in Nat
    /\ DOMAIN solution.after = 0..(dimension - 1)

list_members(class) == {tabu_list[class][k] : k \in 1..Len(tabu_list[class])}

(***************************************************************************)
(* C4: between calls of add_to_tabu and reset_tabu (maxlen >= 0), the tabu *)
(* set of every neighborhood class holds at most _maxlen signatures.       *)
(***************************************************************************)
C4_TabuBound == \A class \in Classes : Cardinality(tabu_set[class]) <= maxlen[class]

(***************************************************************************)
(* C4's case: a class whose capacity was reset to 1 and whose older        *)
(* signature was evicted by a later add_to_tabu.                           *)
(***************************************************************************)
C4_Witness ==
    \E class \in Classes :
        /\ maxlen[class] = 1
        /\ tabu_list[class] = <<(<<0, 2>>)>>
        /\ tabu_set[class] = {<<0, 2>>}
        /\ calls = 3

(***************************************************************************)
(* C5: between calls, a signature is in the tabu FIFO of a class if and    *)
(* only if it is in the tabu set of that class.                            *)
(***************************************************************************)
C5_TabuAgreement == \A class \in Classes : list_members(class) = tabu_set[class]

(***************************************************************************)
(* Every signature of a tabu set is in the FIFO of its class (so that      *)
(* remove_from_tabu never pops an empty deque).                            *)
(***************************************************************************)
TabuSetInList == \A class \in Classes : tabu_set[class] \subseteq list_members(class)

(***************************************************************************)
(* The candidates SwapNeighborhood.find_best_candidate generates on a      *)
(* solution, and those SegmentShift.find_best_candidate generates.         *)
(***************************************************************************)
city_pairs == {p \in (0..(dimension - 1)) \X (0..(dimension - 1)) : p[1] < p[2]}

swap_candidates(sol, tabu) ==
    {swap(sol, p[1], p[2]) :
        p \in {q \in city_pairs : ~swap_skipped(sol, q[1], q[2]) /\ q \notin tabu}}

shift_candidates(sol, tabu, segment_length) ==
    LET path == get_path(sol) IN
    {insert_after(sol, segment_at(path, st[1], segment_length), st[2]) :
        st \in {q \in (0..(dimension - 1)) \X (0..(dimension - 1)) :
                  /\ shift_target_ok(sol, segment_at(path, q[1], segment_length), q[2])
                  /\ <<path[q[1] + 1], q[2]>> \notin tabu}}

reverse_candidates(sol, segment_length) ==
    LET path == get_path(sol) IN
    {reverse(sol, segment_at(path, start, segment_length)) : start \in 0..(dimension - 1)}

(* The segment lengths PathSolution.get_neighborhoods gives SegmentShift. *)
ShiftLengths == 1..3

(***************************************************************************)
(* C1: every solution reached from PathSolution.initial() by candidates of *)
(* Swap, SegmentShift and SegmentReverse (segment length >= 3) is a valid  *)
(* tour: after and before are mutual inverses and the walk from city 0     *)
(* returns to 0 after dimension steps, visiting each city once.            *)
(***************************************************************************)
C1_PermutationInvariant == valid_tour(solution)

(***************************************************************************)
(* A call other than a SegmentReverse call with segment_length >=          *)
(* dimension takes a valid tour to a valid tour.                           *)
(***************************************************************************)
PermutationKept ==
    [][(valid_tour(solution)
        /\ ~(last'.op = "reverse" /\ last'.segment_length >= dimension))
       => valid_tour(solution')]_vars

(***************************************************************************)
(* C2: on a valid tour that carries its true cost, the cost stored in each *)
(* candidate that Swap.find_best_candidate and                             *)
(* SegmentShift.find_best_candidate (segment lengths 1, 2, 3) generate is  *)
(* the cost of walking the candidate's own after-cycle from city 0.        *)
(***************************************************************************)
C2_DeltaCost ==
    (valid_tour(solution) /\ true_cost(solution)) =>
        /\ \A c \in swap_candidates(solution, tabu_set["Swap"]) :
              c.cost = recomputed_cost(c.after)
        /\ \A segment_length \in ShiftLengths :
              \A c \in shift_candidates(solution, tabu_set["SegmentShift"], segment_length) :
                  c.cost = recomputed_cost(c.after)

(***************************************************************************)
(* C2's case: a swap was selected and accepted, its cost differs from the  *)
(* cost of the tour it was made from, and the tour reached has a shift     *)
(* candidate of another cost.                                              *)
(***************************************************************************)
C2_Witness ==
    /\ last.op = "swap"
    /\ last.accepted
    /\ valid_tour(solution) /\ true_cost(solution)
    /\ solution.cost # last.source.cost
    /\ \E c \in shift_candidates(solution, tabu_set["SegmentShift"], 2) :
          c.cost # solution.cost

(***************************************************************************)
(* C3: on a valid tour that carries its true cost, for every segment       *)
(* SegmentReverse.find_best_candidate generates (every start position,     *)
(* every segment length >= 3), the cost stored by reverse is the cost of   *)
(* walking the returned solution's after-cycle.                            *)
(***************************************************************************)
C3_ReverseDeltaCost ==
    (valid_tour(solution) /\ true_cost(solution)) =>
        \A segment_length \in 3..MaxSegLen :
            \A c \in reverse_candidates(solution, segment_length) :
                c.cost = recomputed_cost(c.after)

(***************************************************************************)
(* The same for the segment lengths below dimension.                       *)
(***************************************************************************)
ReverseDeltaCostBelowDimension ==
    (valid_tour(solution) /\ true_cost(solution)) =>
        \A segment_length \in 3..(dimension - 1) :
            \A c \in reverse_candidates(solution, segment_length) :
                c.cost = recomputed_cost(c.after)

(***************************************************************************)
(* The cost of the tour path with the cities a and b exchanged.            *)
(***************************************************************************)
exchanged(path, a, b) ==
    [k \in 1..Len(path) |-> IF path[k] = a THEN b ELSE IF path[k] = b THEN a ELSE path[k]]

RECURSIVE tour_cost(_, _)
tour_cost(path, k) ==
    IF k > Len(path) THEN 0
    ELSE distances[path[k]][path[(k % Len(path)) + 1]] + tour_cost(path, k + 1)

exchanged_cost(sol, a, b) == tour_cost(exchanged(get_path(sol), a, b), 1)

(***************************************************************************)
(* C6: Swap.find_best_candidate returns a solution whose cost is the       *)
(* minimum, over the city pairs that are not adjacent in the cycle and not *)
(* in the Swap tabu set, of the cost of the tour with the pair exchanged;  *)
(* it returns None only when there is no such pair.                        *)
(***************************************************************************)
C6_SwapBestOfNonAdjacent ==
    (last.op = "swap" /\ valid_tour(last.source) /\ true_cost(last.source)) =>
        LET eligible == {p \in city_pairs :
                            /\ last.source.after[p[1]] # p[2]
                            /\ last.source.after[p[2]] # p[1]
                            /\ p \notin last.tabu}
        IN IF eligible = {} THEN IsNone(last.result)
           ELSE /\ ~IsNone(last.result)
                /\ \E p \in eligible : last.result.cost = exchanged_cost(last.source, p[1], p[2])
                /\ \A p \in eligible : last.result.cost <= exchanged_cost(last.source, p[1], p[2])

(***************************************************************************)
(* The same over the pairs the code does not skip: those at least three    *)
(* steps apart along the cycle in both directions.                         *)
(***************************************************************************)
SwapBestOfUnskipped ==
    (last.op = "swap" /\ valid_tour(last.source) /\ true_cost(last.source)) =>
        LET eligible == {p \in city_pairs :
                            /\ ~swap_skipped(last.source, p[1], p[2])
                            /\ p \notin last.tabu}
        IN IF eligible = {} THEN IsNone(last.result)
           ELSE /\ ~IsNone(last.result)
                /\ \E p \in eligible : last.result.cost = exchanged_cost(last.source, p[1], p[2])
                /\ \A p \in eligible : last.result.cost <= exchanged_cost(last.source, p[1], p[2])

(***************************************************************************)
(* C7: on a 5-city instance with a valid tour and an empty Swap tabu list, *)
(* SwapNeighborhood.find_best_candidate returns a candidate and its pair   *)
(* (x, y), and swap(x, y) on the candidate gives back the original after,  *)
(* before and cost.                                                        *)
(***************************************************************************)
C7_FiveCitySwap ==
    (dimension = 5 /\ last.op = "swap" /\ last.tabu = {} /\ valid_tour(last.source)) =>
        IF IsNone(last.result) \/ last.min_pair = <<>> THEN FALSE
        ELSE swap(last.result, last.min_pair[1], last.min_pair[2]) = last.source

(***************************************************************************)
(* Whenever Swap.find_best_candidate returns a candidate on a valid tour,  *)
(* swapping its pair again gives back the original solution.               *)
(***************************************************************************)
SwapIsInvolution ==
    (last.op = "swap" /\ valid_tour(last.source) /\ ~IsNone(last.result)) =>
        swap(last.result, last.min_pair[1], last.min_pair[2]) = last.source

(***************************************************************************)
(* C8: the signature of the candidate a find_best_candidate call returns   *)
(* was not in the tabu set of its neighborhood class when the call began.  *)
(***************************************************************************)
C8_ReturnedNotTabu ==
    (last.op \in {"swap", "shift", "reverse"} /\ last.min_pair # <<>>) =>
        last.min_pair \notin last.tabu

(***************************************************************************)
(* The same for Swap and SegmentShift alone.                               *)
(***************************************************************************)
SwapShiftReturnedNotTabu ==
    (last.op \in {"swap", "shift"} /\ last.min_pair # <<>>) =>
        last.min_pair \notin last.tabu

(***************************************************************************)
(* D2DPathSolution (src/ts/d2d/solutions.py).  Times, distances and        *)
(* energies are floats in the source; the instances drawn below keep them  *)
(* integral (every square root and every quotient is exact), so the        *)
(* integer operators compute the same values.                              *)
(***************************************************************************)
RECURSIVE root_between(_, _, _)
root_between(v, low, high) ==
    IF low >= high THEN low
    ELSE LET middle == (low + high + 1) \div 2 IN
         IF middle <= v \div middle
         THEN root_between(v, middle, high)
         ELSE root_between(v, low, middle - 1)

square_root(v) == root_between(v, 0, v)

d2d_distance(first, second) ==
    square_root((problem.x[first] - problem.x[second]) * (problem.x[first] - problem.x[second])
                + (problem.y[first] - problem.y[second]) * (problem.y[first] - problem.y[second]))

(***************************************************************************)
(* DroneLinearConfig.takeoff_power, cruise_power, landing_power: the       *)
(* linear power curve beta * weight + gamma of the configuration record.   *)
(***************************************************************************)
linear_power(config, weight) == config.beta * weight + config.gamma

(***************************************************************************)
(* calculate_drone_arrival_timestamps                                       *)
(***************************************************************************)
vertical_time(config) ==
    (config.altitude * config.landing_speed + config.altitude * config.takeoff_speed)
        \div (config.takeoff_speed * config.landing_speed)

RECURSIVE drone_arrivals(_, _, _, _)
drone_arrivals(path, config, result, k) ==
    IF k > Len(path) THEN result
    ELSE drone_arrivals(path, config,
                        Append(result, Last(result) + problem.drone_service_time[path[k - 1]]
                                       + vertical_time(config)
                                       + d2d_distance(path[k - 1], path[k]) \div config.cruise_speed),
                        k + 1)

calculate_drone_arrival_timestamps(path, drone, offset) ==
    drone_arrivals(path, problem.drone_linear_config[drone], <<offset>>, 2)

(***************************************************************************)
(* calculate_total_weight, calculate_drone_flight_duration,                *)
(* calculate_drone_energy_consumption                                       *)
(***************************************************************************)
RECURSIVE calculate_total_weight(_)
calculate_total_weight(path) ==
    IF path = <<>> THEN 0 ELSE problem.demands[Head(path)] + calculate_total_weight(Tail(path))

calculate_drone_flight_duration(path, arrival_timestamps) ==
    Last(arrival_timestamps) - arrival_timestamps[1]

RECURSIVE energy_from(_, _, _, _)
energy_from(path, config, weight, k) ==
    IF k > Len(path) THEN 0
    ELSE (config.altitude \div config.takeoff_speed) * linear_power(config, weight)
         + (d2d_distance(path[k - 1], path[k]) \div config.cruise_speed) * linear_power(config, weight)
         + (config.altitude \div config.landing_speed) * linear_power(config, weight)
         + energy_from(path, config, weight + problem.demands[path[k]], k + 1)

calculate_drone_energy_consumption(path, drone) ==
    energy_from(path, problem.drone_linear_config[drone], 0, 2)

(***************************************************************************)
(* The timing functions of D2DPathSolution called on their own.            *)
(*                                                                         *)
(* An optional argument left at None is NoDrone for a drone and            *)
(* NoTimestamps for a tuple of timestamps.  A call ends in ValueError or   *)
(* completes with a value.                                                 *)
(***************************************************************************)
NoDrone == -1

NoTimestamps == <<>>

ValueError == [raised |-> TRUE, value |-> 0]

completed(v) == [raised |-> FALSE, value |-> v]

Hour == 3600

(***************************************************************************)
(* _ensure_drone_arrival_timestamps                                         *)
(***************************************************************************)
ensure_drone_arrival_timestamps(path, drone, arrival_timestamps) ==
    IF arrival_timestamps = NoTimestamps
    THEN IF drone = NoDrone
         THEN ValueError
         ELSE completed(calculate_drone_arrival_timestamps(path, drone, 0))
    ELSE completed(arrival_timestamps)

(***************************************************************************)
(* The sum of lines 260-262 (and 300-302): over the stops of the path, the *)
(* last timestamp minus the stop's own minus the stop's service time.      *)
(***************************************************************************)
RECURSIVE waiting_sum(_, _, _, _)
waiting_sum(path, arrival_timestamps, service_time, k) ==
    IF k > Len(path) THEN 0
    ELSE Last(arrival_timestamps) - arrival_timestamps[k] - service_time[path[k]]
         + waiting_sum(path, arrival_timestamps, service_time, k + 1)

(***************************************************************************)
(* calculate_drone_total_waiting_time: line 258 hands only path and drone  *)
(* to _ensure_drone_arrival_timestamps.                                    *)
(***************************************************************************)
calculate_drone_total_waiting_time(path, drone, arrival_timestamps) ==
    LET ensured == ensure_drone_arrival_timestamps(path, drone, NoTimestamps) IN
    IF ensured.raised THEN ValueError
    ELSE completed(waiting_sum(path, ensured.value, problem.drone_service_time, 1))

(***************************************************************************)
(* calculate_drone_flight_duration with its optional arguments.            *)
(***************************************************************************)
drone_flight_duration(path, drone, arrival_timestamps) ==
    LET ensured == ensure_drone_arrival_timestamps(path, drone, arrival_timestamps) IN
    IF ensured.raised THEN ValueError
    ELSE completed(calculate_drone_flight_duration(path, ensured.value))

(***************************************************************************)
(* calculate_technician_arrival_timestamps.  coefficients_iter is the      *)
(* 0-based place in config.coefficients of the coefficient that            *)
(* itertools.cycle handed out last; velocity is maximum_velocity times     *)
(* that coefficient.  min(distance / velocity, 3600 - within) is the       *)
(* quotient exactly when distance <= (3600 - within) * velocity.           *)
(***************************************************************************)
RECURSIVE travel(_, _, _, _, _)
travel(config, distance, timestamp, current_within_timespan, coefficients_iter) ==
    IF distance <= 0
    THEN [timestamp |-> timestamp, current_within_timespan |-> current_within_timespan,
          coefficients_iter |-> coefficients_iter]
    ELSE LET velocity == config.maximum_velocity * config.coefficients[coefficients_iter + 1]
             remaining == Hour - current_within_timespan
             time_shift == IF distance <= remaining * velocity
                           THEN distance \div velocity
                           ELSE remaining
             within == current_within_timespan + time_shift
         IN IF within >= Hour
            THEN travel(config, distance - time_shift * velocity, timestamp + time_shift,
                        0, (coefficients_iter + 1) % Len(config.coefficients))
            ELSE travel(config, distance - time_shift * velocity, timestamp + time_shift,
                        within, coefficients_iter)

(* One edge travelled with the within-hour counter started again at 0. *)
edge_travel_fresh_hour(config, distance, timestamp, current_within_timespan, coefficients_iter) ==
    travel(config, distance, timestamp, 0, coefficients_iter)

edge_travel(config, distance, timestamp, current_within_timespan, coefficients_iter) ==
    travel(config, distance, timestamp, current_within_timespan, coefficients_iter)

RECURSIVE technician_arrivals(_, _, _, _, _, _)
technician_arrivals(path, config, result, current_within_timespan, coefficients_iter, k) ==
    IF k > Len(path) THEN result
    ELSE LET edge == edge_travel(config, d2d_distance(path[k - 1], path[k]), Last(result),
                                 current_within_timespan, coefficients_iter)
         IN technician_arrivals(path, config, Append(result, edge.timestamp),
                                edge.current_within_timespan, edge.coefficients_iter, k + 1)

calculate_technician_arrival_timestamps(path) ==
    technician_arrivals(path, problem.truck_config, <<0>>, 0, 0, 2)

calculate_technician_total_waiting_time(path, arrival_timestamps) ==
    waiting_sum(path, arrival_timestamps, problem.technician_service_time, 1)

(***************************************************************************)
(* D2DPathSolution.__init__ with only the paths given: the arrival         *)
(* timestamps of each drone's routes, every route offset by the last       *)
(* timestamp of the route before it, those of the technician paths, and    *)
(* the timespans and waiting times handed to the metrics mixin.            *)
(***************************************************************************)
(* Every route of the drone timed from offset 0. *)
RECURSIVE chain_arrivals_from_zero(_, _, _, _)
chain_arrivals_from_zero(paths, drone, offset, k) ==
    IF k > Len(paths) THEN <<>>
    ELSE LET arrivals == calculate_drone_arrival_timestamps(paths[k], drone, 0) IN
         <<arrivals>> \o chain_arrivals_from_zero(paths, drone, 0, k + 1)

RECURSIVE chain_arrivals(_, _, _, _)
chain_arrivals(paths, drone, offset, k) ==
    IF k > Len(paths) THEN <<>>
    ELSE LET arrivals == calculate_drone_arrival_timestamps(paths[k], drone, offset) IN
         <<arrivals>> \o chain_arrivals(paths, drone, Last(arrivals), k + 1)

get_arrival_timestamps(paths_of_drones) ==
    [drone \in DOMAIN paths_of_drones |-> chain_arrivals(paths_of_drones[drone], drone, 0, 1)]

last_element(arrivals) == IF arrivals = <<>> THEN 0 ELSE Last(Last(arrivals))

construct(paths_of_drones, paths_of_technicians) ==
    LET drone_arrival_timestamps == get_arrival_timestamps(paths_of_drones)
        technician_arrival_timestamps ==
            [t \in DOMAIN paths_of_technicians |->
                calculate_technician_arrival_timestamps(paths_of_technicians[t])]
    IN [drone_paths |-> paths_of_drones,
        technician_paths |-> paths_of_technicians,
        drone_arrival_timestamps |-> drone_arrival_timestamps,
        technician_arrival_timestamps |-> technician_arrival_timestamps,
        drone_timespans |->
            [drone \in DOMAIN paths_of_drones |-> last_element(drone_arrival_timestamps[drone])],
        drone_waiting_times |->
            [drone \in DOMAIN paths_of_drones |->
                [r \in 1..Len(paths_of_drones[drone]) |->
                    calculate_drone_total_waiting_time(
                        paths_of_drones[drone][r], drone,
                        drone_arrival_timestamps[drone][r]).value]],
        technician_timespans |->
            [t \in DOMAIN paths_of_technicians |-> Last(technician_arrival_timestamps[t])],
        technician_waiting_times |->
            [t \in DOMAIN paths_of_technicians |->
                calculate_technician_total_waiting_time(
                    paths_of_technicians[t], technician_arrival_timestamps[t])]]

(***************************************************************************)
(* initial, lines 382-386: the hypothetical route breaks a constraint.     *)
(***************************************************************************)
(* The test of lines 382-386 without its capacity line. *)
infeasible_ignoring_capacity(hypothetical_path, drone) ==
    LET config == problem.drone_linear_config[drone]
        hypothetical_arrival_timestamps ==
            calculate_drone_arrival_timestamps(hypothetical_path, drone, 0)
    IN \/ calculate_drone_flight_duration(hypothetical_path, hypothetical_arrival_timestamps)
            > problem.drones_flight_duration
       \/ calculate_drone_energy_consumption(hypothetical_path, drone) > config.battery

(* The test of lines 382-386 without its flight duration line. *)
infeasible_ignoring_duration(hypothetical_path, drone) ==
    LET config == problem.drone_linear_config[drone]
    IN \/ calculate_total_weight(hypothetical_path) > config.capacity
       \/ calculate_drone_energy_consumption(hypothetical_path, drone) > config.battery

infeasible(hypothetical_path, drone) ==
    LET config == problem.drone_linear_config[drone]
        hypothetical_arrival_timestamps ==
            calculate_drone_arrival_timestamps(hypothetical_path, drone, 0)
    IN \/ calculate_total_weight(hypothetical_path) > config.capacity
       \/ calculate_drone_flight_duration(hypothetical_path, hypothetical_arrival_timestamps)
            > problem.drones_flight_duration
       \/ calculate_drone_energy_consumption(hypothetical_path, drone) > config.battery

(***************************************************************************)
(* min(set, key=partial(cls.distance, from)): a nearest customer of the    *)
(* set; the set's iteration order decides between equally near ones.       *)
(***************************************************************************)
nearest_customers(customers, from) ==
    {c \in customers : \A o \in customers : d2d_distance(from, c) <= d2d_distance(from, o)}

(***************************************************************************)
(* initial, lines 390-391: the customer goes before the final depot of the *)
(* technician path whose last customer is nearest; min over a list keeps   *)
(* the first minimum.                                                      *)
(***************************************************************************)
insert_before_last(path, index) ==
    SubSeq(path, 1, Len(path) - 1) \o <<index>> \o <<Last(path)>>

(* Lines 390-391 without the insert. *)
technician_drop(paths, index) == paths

technician_insert(paths, index) ==
    LET key(t) == d2d_distance(index, paths[t][Len(paths[t]) - 1])
        chosen == CHOOSE t \in DOMAIN paths :
                      /\ \A o \in DOMAIN paths : key(t) <= key(o)
                      /\ \A o \in DOMAIN paths : key(o) = key(t) => t <= o
    IN [paths EXCEPT ![chosen] = insert_before_last(@, index)]

(***************************************************************************)
(* The problems: customers on two points at integral distances from the    *)
(* depot (0, 0) and from each other.                                       *)
(***************************************************************************)
Points == {<<3, 0>>, <<0, 4>>}

Limits == {[duration |-> 16, battery |-> 1000], [duration |-> 100, battery |-> 30],
           [duration |-> 100, battery |-> 1000]}

D2DImported ==
    \E customers_count \in 2..MaxCustomers, drones_count \in 1..MaxDrones,
       technicians_count \in 1..MaxTechnicians, capacity \in 1..MaxCapacity, limit \in Limits :
    \E position \in [1..customers_count -> Points],
       demand \in [1..customers_count -> 1..MaxDemand],
       flags \in [1..customers_count -> BOOLEAN] :
        problem = [customers_count |-> customers_count,
                   drones_count |-> drones_count,
                   technicians_count |-> technicians_count,
                   drones_flight_duration |-> limit.duration,
                   x |-> [c \in 0..customers_count |-> IF c = 0 THEN 0 ELSE position[c][1]],
                   y |-> [c \in 0..customers_count |-> IF c = 0 THEN 0 ELSE position[c][2]],
                   demands |-> [c \in 0..customers_count |-> IF c = 0 THEN 0 ELSE demand[c]],
                   dronable |-> [c \in 0..customers_count |-> IF c = 0 THEN TRUE ELSE flags[c]],
                   drone_service_time |-> [c \in 0..customers_count |-> IF c = 0 THEN 0 ELSE 1],
                   technician_service_time |->
                       [c \in 0..customers_count |-> IF c = 0 THEN 0 ELSE 1],
                   truck_config |-> [maximum_velocity |-> 1, coefficients |-> <<1, 2>>],
                   drone_linear_config |-> [d \in 0..(drones_count - 1) |->
                       [altitude |-> 2, takeoff_speed |-> 2, landing_speed |-> 1,
                        cruise_speed |-> 1, capacity |-> capacity, battery |-> limit.battery,
                        beta |-> 1, gamma |-> 1]]]

(***************************************************************************)
(* initial has run its lines 352-355.                                      *)
(***************************************************************************)
D2DInit ==
    /\ TSPIdle /\ TabuDeclared /\ calls = 0 /\ pool = NoPool /\ selected = NoneSelected
    /\ D2DImported
    /\ pc = "technicians"
    /\ technician_paths = [t \in 0..(problem.technicians_count - 1) |-> <<0>>]
    /\ technician_only = {e \in 1..problem.customers_count : ~problem.dronable[e]}
    /\ technician_paths_iter = 0
    /\ drone_paths = <<>>
    /\ dronable = {}
    /\ drone_iter = 0
    /\ returned = <<>>

(***************************************************************************)
(* One iteration of the loop of lines 356-360.                             *)
(***************************************************************************)
TechnicianStep ==
    /\ pc = "technicians"
    /\ technician_only # {}
    /\ \E index \in nearest_customers(technician_only,
                                      Last(technician_paths[technician_paths_iter])) :
        /\ technician_paths' = [technician_paths EXCEPT ![technician_paths_iter] = Append(@, index)]
        /\ technician_only' = technician_only \ {index}
    /\ technician_paths_iter' = (technician_paths_iter + 1) % problem.technicians_count
    /\ UNCHANGED <<pool, selected, tsp_vars, tabu_vars, calls, problem, pc, drone_paths, dronable,
                   drone_iter, returned>>

(***************************************************************************)
(* Lines 362-371: the technician paths are closed, the drone paths opened. *)
(***************************************************************************)
TechnicianClose ==
    /\ pc = "technicians"
    /\ technician_only = {}
    /\ technician_paths' = [t \in DOMAIN technician_paths |-> Append(technician_paths[t], 0)]
    /\ drone_paths' = [d \in 0..(problem.drones_count - 1) |-> <<(<<0>>)>>]
    /\ dronable' = {e \in 1..problem.customers_count : problem.dronable[e]}
    /\ drone_iter' = 0
    /\ pc' = "drones"
    /\ UNCHANGED <<pool, selected, tsp_vars, tabu_vars, calls, problem, technician_only,
                   technician_paths_iter, returned>>

(***************************************************************************)
(* One iteration of the loop of lines 372-396.                             *)
(***************************************************************************)
DroneStep ==
    /\ pc = "drones"
    /\ dronable # {}
    /\ LET drone == drone_iter
           paths == drone_paths[drone]
           path  == Last(paths)
       IN \E index \in nearest_customers(dronable, Last(path)) :
            /\ IF infeasible(path \o <<index, 0>>, drone)
               THEN /\ drone_paths' = [drone_paths EXCEPT ![drone] =
                            Append([paths EXCEPT ![Len(paths)] = Append(path, 0)], <<0>>)]
                    /\ technician_paths' = technician_insert(technician_paths, index)
               ELSE /\ drone_paths' = [drone_paths EXCEPT ![drone] =
                            [paths EXCEPT ![Len(paths)] = Append(path, index)]]
                    /\ technician_paths' = technician_paths
            /\ dronable' = dronable \ {index}
    /\ drone_iter' = (drone_iter + 1) % problem.drones_count
    /\ UNCHANGED <<pool, selected, tsp_vars, tabu_vars, calls, problem, pc, technician_only,
                   technician_paths_iter, returned>>

(***************************************************************************)
(* Lines 398-404: the open routes are closed and the solution is built     *)
(* from the drone routes longer than 2 and the technician paths.           *)
(***************************************************************************)
served_routes(paths) == SelectSeq(paths, LAMBDA path : Len(path) > 2)

Return ==
    /\ pc = "drones"
    /\ dronable = {}
    /\ LET closed == [d \in DOMAIN drone_paths |->
                        [drone_paths[d] EXCEPT ![Len(drone_paths[d])] = Append(@, 0)]]
       IN /\ drone_paths' = closed
          /\ returned' = construct([d \in DOMAIN closed |-> served_routes(closed[d])],
                                    technician_paths)
    /\ pc' = "returned"
    /\ UNCHANGED <<pool, selected, tsp_vars, tabu_vars, calls, problem, technician_paths, technician_only,
                   technician_paths_iter, dronable, drone_iter>>

D2DNext == TechnicianStep \/ TechnicianClose \/ DroneStep \/ Return

D2DSpec == D2DInit /\ [][D2DNext]_vars

(***************************************************************************)
(* The routes of the returned solution, and how often a customer is        *)
(* visited by them.                                                        *)
(***************************************************************************)
RECURSIVE occurrences(_, _)
occurrences(path, customer) ==
    IF path = <<>> THEN 0
    ELSE (IF Head(path) = customer THEN 1 ELSE 0) + occurrences(Tail(path), customer)

RECURSIVE occurrences_in(_, _)
occurrences_in(paths, customer) ==
    IF paths = <<>> THEN 0
    ELSE occurrences(Head(paths), customer) + occurrences_in(Tail(paths), customer)

RECURSIVE drone_visits_from(_, _)
drone_visits_from(d, customer) ==
    IF d \notin DOMAIN returned.drone_paths THEN 0
    ELSE occurrences_in(returned.drone_paths[d], customer) + drone_visits_from(d + 1, customer)

drone_visits(customer) == drone_visits_from(0, customer)

RECURSIVE technician_visits_from(_, _)
technician_visits_from(t, customer) ==
    IF t \notin DOMAIN returned.technician_paths THEN 0
    ELSE occurrences(returned.technician_paths[t], customer)
         + technician_visits_from(t + 1, customer)

technician_visits(customer) == technician_visits_from(0, customer)

depot_delimited(path) ==
    /\ Len(path) >= 2
    /\ path[1] = 0
    /\ Last(path) = 0
    /\ \A k \in 2..(Len(path) - 1) : path[k] # 0

returned_drone_routes ==
    UNION {{returned.drone_paths[d][r] : r \in 1..Len(returned.drone_paths[d])} :
              d \in DOMAIN returned.drone_paths}

returned_technician_routes ==
    {returned.technician_paths[t] : t \in DOMAIN returned.technician_paths}

(***************************************************************************)
(* C9: in the solution initial() returns (at least one truck and one       *)
(* drone), every customer 1..customers_count is visited exactly once by    *)
(* the drone and truck routes together, no customer that is not dronable   *)
(* is on a drone route, and every route starts and ends at depot 0 with no *)
(* depot in between.                                                       *)
(***************************************************************************)
C9_InitialCoverage ==
    pc = "returned" =>
        /\ \A customer \in 1..problem.customers_count :
              drone_visits(customer) + technician_visits(customer) = 1
        /\ \A customer \in 1..problem.customers_count :
              ~problem.dronable[customer] => drone_visits(customer) = 0
        /\ \A path \in returned_drone_routes \cup returned_technician_routes :
              depot_delimited(path)

(***************************************************************************)
(* C9's case: initial() has returned a solution with a drone route, a      *)
(* truck-only customer, and a dronable customer that went to a truck.      *)
(***************************************************************************)
C9_Witness ==
    /\ pc = "returned"
    /\ returned_drone_routes # {}
    /\ \E customer \in 1..problem.customers_count :
          ~problem.dronable[customer] /\ technician_visits(customer) = 1
    /\ \E customer \in 1..problem.customers_count :
          problem.dronable[customer] /\ technician_visits(customer) = 1

(***************************************************************************)
(* The scenario of C10: one drone of capacity 1, two dronable customers of *)
(* demand 1, flight duration and battery beyond what any route needs.      *)
(***************************************************************************)
capacity_scenario ==
    /\ problem.drones_count = 1
    /\ problem.drone_linear_config[0].capacity = 1
    /\ problem.customers_count = 2
    /\ \A customer \in 1..2 : problem.dronable[customer] /\ problem.demands[customer] = 1
    /\ problem.drones_flight_duration = 100
    /\ problem.drone_linear_config[0].battery = 1000

within_capacity ==
    \A d \in DOMAIN returned.drone_paths :
        \A r \in 1..Len(returned.drone_paths[d]) :
            calculate_total_weight(returned.drone_paths[d][r])
                <= problem.drone_linear_config[d].capacity

(***************************************************************************)
(* C10 as stated: in the scenario, the returned solution has two drone     *)
(* routes, each serving one of the two customers, and no drone route       *)
(* heavier than the capacity.                                              *)
(***************************************************************************)
C10_TwoDroneRoutes ==
    (pc = "returned" /\ capacity_scenario) =>
        /\ Len(returned.drone_paths[0]) = 2
        /\ {returned.drone_paths[0][1], returned.drone_paths[0][2]} = {<<0, 1, 0>>, <<0, 2, 0>>}
        /\ within_capacity

(***************************************************************************)
(* C10 as amended: in the scenario, the returned solution has one drone    *)
(* route, which serves a customer nearest to the depot; the other customer *)
(* is on a truck route; no drone route is heavier than the capacity.       *)
(***************************************************************************)
C10_OneDroneRouteOneTruck ==
    (pc = "returned" /\ capacity_scenario) =>
        /\ Len(returned.drone_paths[0]) = 1
        /\ \E customer \in nearest_customers({1, 2}, 0) :
              /\ returned.drone_paths[0][1] = <<0, customer, 0>>
              /\ technician_visits(3 - customer) = 1
              /\ drone_visits(3 - customer) = 0
        /\ within_capacity

(***************************************************************************)
(* C10's case: initial() has returned in the scenario.                     *)
(***************************************************************************)
C10_Witness ==
    /\ pc = "returned"
    /\ capacity_scenario
    /\ d2d_distance(1, 2) > 0
    /\ Len(returned.drone_paths[0]) = 1

(***************************************************************************)
(* The problems of the timing functions: two customers on points 3000,     *)
(* 4000 and 5000 apart, so that a truck route runs over several hours;     *)
(* truck velocities 1 and 2 per time unit keep every quotient exact.       *)
(***************************************************************************)
TimesPoints == {<<3000, 0>>, <<0, 4000>>}

TimesCoefficients == {<<1>>, <<1, 2>>, <<2, 1>>}

TimesImported ==
    \E customers_count \in {MaxTimesCustomers}, drones_count \in 1..MaxDrones,
       service_time \in 0..MaxServiceTime, coefficients \in TimesCoefficients :
    \E position \in [1..customers_count -> TimesPoints] :
        problem = [customers_count |-> customers_count,
                   drones_count |-> drones_count,
                   technicians_count |-> 1,
                   drones_flight_duration |-> 100,
                   x |-> [c \in 0..customers_count |-> IF c = 0 THEN 0 ELSE position[c][1]],
                   y |-> [c \in 0..customers_count |-> IF c = 0 THEN 0 ELSE position[c][2]],
                   demands |-> [c \in 0..customers_count |-> IF c = 0 THEN 0 ELSE 1],
                   dronable |-> [c \in 0..customers_count |-> TRUE],
                   drone_service_time |->
                       [c \in 0..customers_count |-> IF c = 0 THEN 0 ELSE service_time],
                   technician_service_time |->
                       [c \in 0..customers_count |-> IF c = 0 THEN 0 ELSE service_time],
                   truck_config |-> [maximum_velocity |-> 1, coefficients |-> coefficients],
                   drone_linear_config |-> [d \in 0..(drones_count - 1) |->
                       [altitude |-> 2, takeoff_speed |-> 2, landing_speed |-> 1,
                        cruise_speed |-> 1, capacity |-> 1, battery |-> 1000,
                        beta |-> 1, gamma |-> 1]]]

TimesInit ==
    /\ TSPIdle /\ TabuDeclared /\ calls = 0 /\ pool = NoPool /\ selected = NoneSelected
    /\ TimesImported
    /\ pc = "idle"
    /\ technician_paths = <<>>
    /\ technician_only = {}
    /\ technician_paths_iter = 0
    /\ drone_paths = <<>>
    /\ dronable = {}
    /\ drone_iter = 0
    /\ returned = <<>>

(***************************************************************************)
(* The arguments: any route from the depot of at most MaxRouteLen          *)
(* locations; timestamps supplied by the caller, step apart; the routes    *)
(* of a solution, from depot to depot over distinct customers.             *)
(***************************************************************************)
Routes ==
    UNION {{<<0>> \o s : s \in [1..k -> 0..problem.customers_count]} :
              k \in 0..(MaxRouteLen - 1)}

supplied_timestamps(path, step) == [k \in 1..Len(path) |-> (k - 1) * step]

DepotRoutes ==
    {<<0>> \o s \o <<0>> :
        s \in {q \in UNION {[1..k -> 1..problem.customers_count] : k \in 1..MaxTimesCustomers} :
                  \A i, j \in DOMAIN q : q[i] = q[j] => i = j}}

RouteLists == UNION {[1..k -> DepotRoutes] : k \in 0..MaxRoutes}

timing_call(record) ==
    /\ calls' = calls + 1
    /\ last' = record
    /\ UNCHANGED <<pool, selected, dimension, x, y, distances, solution, tabu_vars, d2d_vars>>

DroneArrivalsCall ==
    /\ calls < MaxTimesCalls
    /\ \E path \in Routes, drone \in 0..(problem.drones_count - 1), offset \in 0..MaxOffset :
           timing_call([op |-> "drone_arrival_timestamps", path |-> path, drone |-> drone,
                        offset |-> offset,
                        result |-> calculate_drone_arrival_timestamps(path, drone, offset)])

TechnicianArrivalsCall ==
    /\ calls < MaxTimesCalls
    /\ \E path \in Routes :
           timing_call([op |-> "technician_arrival_timestamps", path |-> path,
                        result |-> calculate_technician_arrival_timestamps(path)])

WaitingTimeCall ==
    /\ calls < MaxTimesCalls
    /\ \E path \in Routes, drone \in {NoDrone} \cup (0..(problem.drones_count - 1)) :
       \E arrival_timestamps \in
               {NoTimestamps} \cup {supplied_timestamps(path, step) : step \in 1..MaxStep} :
           timing_call([op |-> "drone_total_waiting_time", path |-> path, drone |-> drone,
                        arrival_timestamps |-> arrival_timestamps,
                        result |-> calculate_drone_total_waiting_time(path, drone,
                                                                      arrival_timestamps)])

FlightDurationCall ==
    /\ calls < MaxTimesCalls
    /\ \E path \in Routes, drone \in {NoDrone} \cup (0..(problem.drones_count - 1)) :
       \E arrival_timestamps \in
               {NoTimestamps} \cup {supplied_timestamps(path, step) : step \in 1..MaxStep} :
           timing_call([op |-> "drone_flight_duration", path |-> path, drone |-> drone,
                        arrival_timestamps |-> arrival_timestamps,
                        result |-> drone_flight_duration(path, drone, arrival_timestamps)])

Construct ==
    /\ calls < MaxTimesCalls
    /\ \E paths_of_drones \in [0..(problem.drones_count - 1) -> RouteLists],
          technician_path \in DepotRoutes :
        returned' = construct(paths_of_drones, [t \in {0} |-> technician_path])
    /\ calls' = calls + 1
    /\ pc' = "constructed"
    /\ UNCHANGED <<pool, selected, tsp_vars, tabu_vars, problem, technician_paths, technician_only,
                   technician_paths_iter, drone_paths, dronable, drone_iter>>

TimesNext ==
    \/ DroneArrivalsCall
    \/ TechnicianArrivalsCall
    \/ WaitingTimeCall
    \/ FlightDurationCall
    \/ Construct

TimesSpec == TimesInit /\ [][TimesNext]_vars

(***************************************************************************)
(* C11: calculate_drone_total_waiting_time and                             *)
(* calculate_drone_flight_duration end in ValueError if and only if        *)
(* neither arrival_timestamps nor drone is supplied; a call with           *)
(* arrival_timestamps and no drone completes, and returns the value of     *)
(* the supplied timestamps.                                                *)
(***************************************************************************)
C11_ValueErrorIffNeitherSupplied ==
    last.op \in {"drone_total_waiting_time", "drone_flight_duration"} =>
        /\ last.result.raised <=>
              (last.drone = NoDrone /\ last.arrival_timestamps = NoTimestamps)
        /\ (last.drone = NoDrone /\ last.arrival_timestamps # NoTimestamps) =>
              last.result =
                  IF last.op = "drone_flight_duration"
                  THEN completed(Last(last.arrival_timestamps) - last.arrival_timestamps[1])
                  ELSE completed(waiting_sum(last.path, last.arrival_timestamps,
                                             problem.drone_service_time, 1))

(***************************************************************************)
(* What holds: calculate_drone_flight_duration alone behaves so, and       *)
(* calculate_drone_total_waiting_time ends in ValueError whenever no drone *)
(* is supplied, and never returns a value of the supplied timestamps'      *)
(* making: it is the value of the timestamps computed from offset 0.       *)
(***************************************************************************)
FlightDurationValueError ==
    last.op = "drone_flight_duration" =>
        /\ last.result.raised <=>
              (last.drone = NoDrone /\ last.arrival_timestamps = NoTimestamps)
        /\ last.arrival_timestamps # NoTimestamps =>
              last.result =
                  completed(Last(last.arrival_timestamps) - last.arrival_timestamps[1])

WaitingTimeNeedsDrone ==
    last.op = "drone_total_waiting_time" =>
        /\ last.result.raised <=> last.drone = NoDrone
        /\ last.drone # NoDrone =>
              last.result =
                  completed(waiting_sum(last.path,
                                        calculate_drone_arrival_timestamps(last.path,
                                                                           last.drone, 0),
                                        problem.drone_service_time, 1))

(***************************************************************************)
(* C12: calculate_drone_arrival_timestamps returns one timestamp per       *)
(* location of the route, the first the offset, none smaller than the one  *)
(* before it; calculate_technician_arrival_timestamps likewise from 0; in  *)
(* a constructed solution the first route of every drone starts at 0, each *)
(* later route at the last timestamp of the route before it, and so the    *)
(* timestamps of a drone in route order never decrease.                    *)
(***************************************************************************)
non_decreasing(timestamps) ==
    \A k \in 2..Len(timestamps) : timestamps[k - 1] <= timestamps[k]

chained(arrivals) ==
    \A r \in 1..Len(arrivals) :
        /\ non_decreasing(arrivals[r])
        /\ arrivals[r][1] = (IF r = 1 THEN 0 ELSE Last(arrivals[r - 1]))

C12_ArrivalTimestampsMonotonic ==
    /\ last.op = "drone_arrival_timestamps" =>
          /\ Len(last.result) = Len(last.path)
          /\ last.result[1] = last.offset
          /\ non_decreasing(last.result)
    /\ last.op = "technician_arrival_timestamps" =>
          /\ Len(last.result) = Len(last.path)
          /\ last.result[1] = 0
          /\ non_decreasing(last.result)
    /\ pc = "constructed" =>
          /\ \A drone \in DOMAIN returned.drone_paths :
                /\ Len(returned.drone_arrival_timestamps[drone])
                      = Len(returned.drone_paths[drone])
                /\ \A r \in 1..Len(returned.drone_paths[drone]) :
                      Len(returned.drone_arrival_timestamps[drone][r])
                          = Len(returned.drone_paths[drone][r])
                /\ chained(returned.drone_arrival_timestamps[drone])
          /\ \A t \in DOMAIN returned.technician_paths :
                /\ Len(returned.technician_arrival_timestamps[t])
                      = Len(returned.technician_paths[t])
                /\ returned.technician_arrival_timestamps[t][1] = 0
                /\ non_decreasing(returned.technician_arrival_timestamps[t])

(***************************************************************************)
(* C12's case: a solution constructed with two drones, one of them with    *)
(* two routes, the second route starting later than 0.                     *)
(***************************************************************************)
C12_Witness ==
    /\ pc = "constructed"
    /\ problem.drones_count = 2
    /\ \E drone \in DOMAIN returned.drone_paths :
          /\ Len(returned.drone_paths[drone]) = 2
          /\ returned.drone_arrival_timestamps[drone][2][1] > 0
          /\ returned.drone_arrival_timestamps[drone][2][1]
                = Last(returned.drone_arrival_timestamps[drone][1])

(***************************************************************************)
(* The same for the solution initial() returns.                            *)
(***************************************************************************)
InitialTimestampsChained ==
    pc = "returned" =>
        /\ \A drone \in DOMAIN returned.drone_paths :
              chained(returned.drone_arrival_timestamps[drone])
        /\ \A t \in DOMAIN returned.technician_paths :
              non_decreasing(returned.technician_arrival_timestamps[t])

(***************************************************************************)
(* C13: the distances of an imported EUC_2D instance are Euclidean: for    *)
(* every two cities the square of distances[i][j] is the sum of the        *)
(* squares of the coordinate differences.                                  *)
(***************************************************************************)
C13_EuclideanDistances ==
    \A i, j \in 0..(dimension - 1) :
        distances[i][j] * distances[i][j]
            = (x[i] - x[j]) * (x[i] - x[j]) + (y[i] - y[j]) * (y[i] - y[j])

(***************************************************************************)
(* What holds: the distances are the sums of the absolute coordinate       *)
(* differences, and they are what cost() adds up.                          *)
(***************************************************************************)
ManhattanDistances ==
    \A i, j \in 0..(dimension - 1) :
        distances[i][j] = Abs(x[i] - x[j]) + Abs(y[i] - y[j])

(***************************************************************************)
(* SegmentReverse.find_best_candidate step by step.  The coordinator       *)
(* fills one bundle per worker (lines 60-68) and hands them to pool.map;   *)
(* every worker runs static_find_best_candidate on its bundle, a copy of   *)
(* the neighborhood with its solution and the worker's segments, one       *)
(* segment per step, and hands back its result; the workers' steps         *)
(* interleave in any order.  pool.map returns once every worker has        *)
(* handed back, with the results in the order of the bundles, and the      *)
(* coordinator reduces them and ends the call (lines 70-83).               *)
(*                                                                         *)
(* pool.position[w] is the number of segments worker w has scanned,        *)
(* pool.found[w] its result and min_pair, pool.returned[w] whether its     *)
(* result is back, pool.out_of_order whether some worker handed back       *)
(* before a worker of a lower index.                                       *)
(***************************************************************************)
PoolSizes == (1..MaxPool) \cup {dimension + 1}

PoolStart ==
    /\ calls < MaxPoolCalls
    /\ pool.phase \in {"idle", "done"}
    /\ path_complete(solution)
    /\ \E segment_length \in 3..MaxSegLen, pool_size \in PoolSizes :
        pool' = [phase |-> "map",
                 segment_length |-> segment_length,
                 pool_size |-> pool_size,
                 solution |-> solution,
                 args |-> worker_args(solution, segment_length, pool_size),
                 position |-> [w \in 0..(pool_size - 1) |-> 0],
                 found |-> [w \in 0..(pool_size - 1) |-> NoResult],
                 returned |-> [w \in 0..(pool_size - 1) |-> FALSE],
                 out_of_order |-> FALSE]
    /\ UNCHANGED <<tsp_vars, tabu_vars, calls, d2d_vars, selected>>

(* A worker that pushes the signature of every segment it keeps. *)
WorkerScanPushing(w) ==
    /\ pool.phase = "map"
    /\ ~pool.returned[w]
    /\ pool.position[w] < Len(pool.args[w])
    /\ LET segment == pool.args[w][pool.position[w] + 1]
           found == keep_best(pool.found[w], reverse(pool.solution, segment),
                              <<segment[1], Last(segment)>>)
           t == add_to_tabu([list |-> tabu_list["SegmentReverse"],
                             set |-> tabu_set["SegmentReverse"]],
                            found.min_pair, maxlen["SegmentReverse"])
       IN /\ pool' = [pool EXCEPT !.position[w] = @ + 1, !.found[w] = found]
          /\ tabu_list' = [tabu_list EXCEPT !["SegmentReverse"] = t.list]
          /\ tabu_set' = [tabu_set EXCEPT !["SegmentReverse"] = t.set]
    /\ UNCHANGED <<tsp_vars, maxlen, calls, d2d_vars, selected>>

WorkerScan(w) ==
    /\ pool.phase = "map"
    /\ ~pool.returned[w]
    /\ pool.position[w] < Len(pool.args[w])
    /\ LET segment == pool.args[w][pool.position[w] + 1] IN
       pool' = [pool EXCEPT !.position[w] = @ + 1,
                            !.found[w] = keep_best(@, reverse(pool.solution, segment),
                                                   <<segment[1], Last(segment)>>)]
    /\ UNCHANGED <<tsp_vars, tabu_vars, calls, d2d_vars, selected>>

WorkerReturn(w) ==
    /\ pool.phase = "map"
    /\ ~pool.returned[w]
    /\ pool.position[w] = Len(pool.args[w])
    /\ pool' = [pool EXCEPT !.returned[w] = TRUE,
                            !.out_of_order = @ \/ \E v \in 0..(w - 1) : ~pool.returned[v]]
    /\ UNCHANGED <<tsp_vars, tabu_vars, calls, d2d_vars, selected>>

(***************************************************************************)
(* Lines 70-78 over the results pool.map returned.                         *)
(***************************************************************************)
RECURSIVE reduce_received(_, _, _)
reduce_received(results, w, state) ==
    IF w \notin DOMAIN results THEN state
    ELSE IF IsNone(results[w].result) \/ results[w].min_pair = <<>>
    THEN reduce_received(results, w + 1, state)
    ELSE reduce_received(results, w + 1,
                         keep_best(state, results[w].result, results[w].min_pair))

PoolReduce ==
    /\ pool.phase = "map"
    /\ \A w \in DOMAIN pool.returned : pool.returned[w]
    /\ pool' = [pool EXCEPT !.phase = "done"]
    /\ \E accept \in BOOLEAN :
        Finish("SegmentReverse", "reverse", pool.segment_length, pool.pool_size,
               reduce_received(pool.found, 0, NoResult), accept)

PoolNext ==
    \/ PoolStart
    \/ \E w \in DOMAIN pool.position : WorkerScan(w)
    \/ \E w \in DOMAIN pool.position : WorkerReturn(w)
    \/ PoolReduce

PoolSpec == Init /\ [][PoolNext]_vars

(***************************************************************************)
(* C14: in SegmentReverse.find_best_candidate no step taken while the      *)
(* workers evaluate changes the tabu list, the tabu set or the input       *)
(* solution; the tabu state changes in one step only, the coordinator's    *)
(* after every worker's result is back, by one add_to_tabu of the          *)
(* signature (first city, last city) of the segment of the selected        *)
(* candidate; a call that selects nothing leaves the tabu state as it was. *)
(***************************************************************************)
C14_TabuWrittenByCoordinatorOnly ==
    [][/\ (pool.phase = "map" /\ pool'.phase = "map") =>
              /\ UNCHANGED <<tabu_list, tabu_set, maxlen>>
              /\ UNCHANGED solution
              /\ pool'.solution = pool.solution
       /\ (pool.phase = "map" /\ pool'.phase = "done") =>
              /\ \A w \in DOMAIN pool.returned : pool.returned[w]
              /\ UNCHANGED maxlen
              /\ \A class \in Classes \ {"SegmentReverse"} :
                    tabu_list'[class] = tabu_list[class] /\ tabu_set'[class] = tabu_set[class]
              /\ IF last'.min_pair = <<>>
                 THEN UNCHANGED <<tabu_list, tabu_set>>
                 ELSE /\ \E w \in DOMAIN pool.args : \E k \in 1..Len(pool.args[w]) :
                            /\ last'.min_pair = <<pool.args[w][k][1], Last(pool.args[w][k])>>
                            /\ last'.result = reverse(pool.solution, pool.args[w][k])
                      /\ LET t == add_to_tabu([list |-> tabu_list["SegmentReverse"],
                                               set |-> tabu_set["SegmentReverse"]],
                                              last'.min_pair, maxlen["SegmentReverse"])
                         IN /\ tabu_list'["SegmentReverse"] = t.list
                            /\ tabu_set'["SegmentReverse"] = t.set
       /\ (pool.phase # "map") => UNCHANGED <<tabu_list, tabu_set, maxlen>>
      ]_vars

(***************************************************************************)
(* C14's case: a call over two or more workers has ended, a worker handed  *)
(* back before a worker of a lower index, and the signature of the         *)
(* selected candidate is the one signature in the tabu state.              *)
(***************************************************************************)
C14_Witness ==
    /\ pool.phase = "done"
    /\ pool.pool_size >= 2
    /\ pool.out_of_order
    /\ last.min_pair # <<>>
    /\ tabu_list["SegmentReverse"] = <<last.min_pair>>
    /\ tabu_set["SegmentReverse"] = {last.min_pair}

(***************************************************************************)
(* C15: for every pool_size >= 1 and every order in which the workers run  *)
(* and hand back, the segment that starts at path position s is handed to  *)
(* worker s mod pool_size and to no other, and the call returns the        *)
(* candidate of least cost among the reversals of the n segments; of       *)
(* equally cheap candidates the one of the lowest worker wins, and within  *)
(* a worker the one of the earliest segment.                               *)
(***************************************************************************)
pool_segment(s) == segment_at(get_path(pool.solution), s, pool.segment_length)

pool_candidate(s) == reverse(pool.solution, pool_segment(s))

pool_precedes(s, t) ==
    \/ pool_candidate(s).cost < pool_candidate(t).cost
    \/ /\ pool_candidate(s).cost = pool_candidate(t).cost
       /\ \/ s % pool.pool_size < t % pool.pool_size
          \/ /\ s % pool.pool_size = t % pool.pool_size
             /\ s \div pool.pool_size < t \div pool.pool_size

pool_best ==
    CHOOSE s \in 0..(dimension - 1) :
        \A t \in (0..(dimension - 1)) \ {s} : pool_precedes(s, t)

RECURSIVE segments_handed(_)
segments_handed(w) ==
    IF w \notin DOMAIN pool.args THEN 0 ELSE Len(pool.args[w]) + segments_handed(w + 1)

C15_PoolResultDeterministic ==
    pool.phase = "done" =>
        /\ \A s \in 0..(dimension - 1) :
              /\ s \div pool.pool_size + 1 \in DOMAIN pool.args[s % pool.pool_size]
              /\ pool.args[s % pool.pool_size][s \div pool.pool_size + 1] = pool_segment(s)
        /\ segments_handed(0) = dimension
        /\ last.result = pool_candidate(pool_best)
        /\ last.min_pair = <<pool_segment(pool_best)[1], Last(pool_segment(pool_best))>>
        /\ last.result
              = reverse_find_best_candidate(pool.solution, pool.segment_length,
                                            pool.pool_size).result

(***************************************************************************)
(* C15's case: a call has ended in which a worker handed back before a     *)
(* worker of a lower index, and the cheapest candidates of two workers     *)
(* cost the same.                                                          *)
(***************************************************************************)
C15_Witness ==
    /\ pool.phase = "done"
    /\ pool.out_of_order
    /\ \E v, w \in DOMAIN pool.found :
          /\ v < w
          /\ pool.found[v].min_pair # <<>>
          /\ pool.found[w].min_pair # <<>>
          /\ pool.found[v].result.cost = last.result.cost
          /\ pool.found[w].result.cost = last.result.cost

(***************************************************************************)
(* The other case: more workers than segments, so that a worker had none.  *)
(***************************************************************************)
PoolWithIdleWorker ==
    /\ pool.phase = "done"
    /\ \E w \in DOMAIN pool.args : pool.args[w] = <<>>
    /\ last.min_pair # <<>>

(***************************************************************************)
(* C16: within one call of calculate_technician_arrival_timestamps the     *)
(* truck's velocity at elapsed time t is maximum_velocity times            *)
(* coefficients[floor(t / 3600) mod K], from t = 0 and the first           *)
(* coefficient in every call: the distance of every edge is the distance   *)
(* covered at that velocity between the arrival timestamps of its two      *)
(* ends.                                                                   *)
(***************************************************************************)
velocity_in_hour(config, hour) ==
    config.maximum_velocity * config.coefficients[(hour % Len(config.coefficients)) + 1]

RECURSIVE covered_in_hours(_, _)
covered_in_hours(config, hours) ==
    IF hours = 0 THEN 0
    ELSE covered_in_hours(config, hours - 1) + Hour * velocity_in_hour(config, hours - 1)

covered_until(config, t) ==
    covered_in_hours(config, t \div Hour) + (t % Hour) * velocity_in_hour(config, t \div Hour)

C16_HourlyVelocity ==
    last.op = "technician_arrival_timestamps" =>
        /\ last.result[1] = 0
        /\ \A k \in 2..Len(last.path) :
              covered_until(problem.truck_config, last.result[k])
                  - covered_until(problem.truck_config, last.result[k - 1])
              = d2d_distance(last.path[k - 1], last.path[k])

(***************************************************************************)
(* C16's case: two coefficients, an edge that starts inside one hour and   *)
(* ends in a later one, and a route that lasts into the third hour, where  *)
(* the first coefficient applies again.                                    *)
(***************************************************************************)
C16_Witness ==
    /\ last.op = "technician_arrival_timestamps"
    /\ Len(problem.truck_config.coefficients) = 2
    /\ \E k \in 2..Len(last.path) :
          /\ last.result[k - 1] % Hour # 0
          /\ last.result[k - 1] \div Hour < last.result[k] \div Hour
          /\ last.result[k] % Hour # 0
    /\ Last(last.result) > 2 * Hour

(***************************************************************************)
(* C17: every drone route of the solution initial() returns carries at     *)
(* most the drone's capacity, lasts (last minus first arrival timestamp)   *)
(* at most drones_flight_duration and consumes at most the drone's         *)
(* battery; and a dronable customer whose addition to the drone's open     *)
(* route would break one of the three goes to the first truck route among  *)
(* those whose last customer (the depot, on an empty route) is nearest to  *)
(* it, right before that route's final depot, all other truck routes       *)
(* staying as they are.                                                    *)
(***************************************************************************)
routes_within_limits ==
    \A drone \in DOMAIN returned.drone_paths :
        \A r \in 1..Len(returned.drone_paths[drone]) :
            LET path == returned.drone_paths[drone][r]
                arrivals == returned.drone_arrival_timestamps[drone][r]
            IN /\ calculate_total_weight(path) <= problem.drone_linear_config[drone].capacity
               /\ Last(arrivals) - arrivals[1] <= problem.drones_flight_duration
               /\ calculate_drone_energy_consumption(path, drone)
                     <= problem.drone_linear_config[drone].battery

placed_on_nearest_truck(index) ==
    \E t \in DOMAIN technician_paths :
        LET path == technician_paths[t]
            near(p) == d2d_distance(index, p[Len(p) - 1])
        IN /\ \A o \in DOMAIN technician_paths : near(path) <= near(technician_paths[o])
           /\ \A o \in DOMAIN technician_paths :
                 near(technician_paths[o]) = near(path) => t <= o
           /\ technician_paths'[t]
                 = SubSeq(path, 1, Len(path) - 1) \o <<index, 0>>
           /\ \A o \in DOMAIN technician_paths \ {t} :
                 technician_paths'[o] = technician_paths[o]

C17_EnduranceConstraints ==
    [][/\ pc' = "returned" => routes_within_limits'
       /\ (pc = "drones" /\ pc' = "drones") =>
             \A index \in dronable \ dronable' :
                 LET path == Last(drone_paths[drone_iter])
                     hypothetical_path == path \o <<index, 0>>
                     arrivals == calculate_drone_arrival_timestamps(hypothetical_path,
                                                                    drone_iter, 0)
                     config == problem.drone_linear_config[drone_iter]
                 IN IF \/ calculate_total_weight(hypothetical_path) > config.capacity
                       \/ Last(arrivals) - arrivals[1] > problem.drones_flight_duration
                       \/ calculate_drone_energy_consumption(hypothetical_path, drone_iter)
                             > config.battery
                    THEN /\ placed_on_nearest_truck(index)
                         /\ \A d \in DOMAIN drone_paths' :
                               occurrences_in(drone_paths'[d], index) = 0
                    ELSE /\ UNCHANGED technician_paths
                         /\ Last(drone_paths'[drone_iter]) = Append(path, index)
      ]_vars

(***************************************************************************)
(* C17's case: initial() has returned a solution with a drone route, in a  *)
(* problem where the drone could carry all customers together, and a       *)
(* dronable customer is the last of a truck route: flight duration or      *)
(* battery sent it there.                                                  *)
(***************************************************************************)
C17_Witness ==
    /\ pc = "returned"
    /\ returned_drone_routes # {}
    /\ calculate_total_weight([c \in 1..problem.customers_count |-> c])
          <= problem.drone_linear_config[0].capacity
    /\ \E t \in DOMAIN returned.technician_paths :
          /\ Len(returned.technician_paths[t]) >= 3
          /\ problem.dronable[returned.technician_paths[t][Len(returned.technician_paths[t]) - 1]]

(***************************************************************************)
(* A search with a short tabu list: reset_tabu(maxlen=m) was called on     *)
(* every class before the first find_best_candidate, and the driver then   *)
(* calls Swap and SegmentShift (the lengths of get_neighborhoods) on its   *)
(* current solution, keeping the candidate or not, with no reset_tabu.     *)
(***************************************************************************)
SearchInit ==
    /\ TSPLoaded /\ calls = 0 /\ pool = NoPool /\ selected = NoneSelected /\ D2DIdle
    /\ \E m \in 1..MaxTabuLen : maxlen = [c \in Classes |-> m]
    /\ tabu_list = [c \in Classes |-> <<>>]
    /\ tabu_set = [c \in Classes |-> {}]

SearchSwap ==
    /\ calls < MaxSearchCalls
    /\ UNCHANGED pool
    /\ \E accept \in BOOLEAN :
        Finish("Swap", "swap", 0, 0,
               swap_find_best_candidate(solution, tabu_set["Swap"]), accept)

SearchShift ==
    /\ calls < MaxSearchCalls
    /\ UNCHANGED pool
    /\ path_complete(solution)
    /\ \E segment_length \in ShiftLengths, accept \in BOOLEAN :
        Finish("SegmentShift", "shift", segment_length, 0,
               shift_find_best_candidate(solution, tabu_set["SegmentShift"], segment_length),
               accept)

SearchNext == SearchSwap \/ SearchShift

SearchSpec == SearchInit /\ [][SearchNext]_vars

(***************************************************************************)
(* C18: for Swap and SegmentShift with maxlen >= 1 and no reset_tabu: the  *)
(* signature a call selects is in the class's tabu state when the call     *)
(* ends; none of the next maxlen selecting calls of the class selects it   *)
(* again; and it is still in the tabu set as long as fewer than maxlen     *)
(* signatures were pushed after it.                                        *)
(***************************************************************************)
C18_SelectedStaysTabu ==
    \A class \in {"Swap", "SegmentShift"} :
        LET history == selected[class] IN
        /\ history # <<>> =>
              /\ Last(history) \in tabu_set[class]
              /\ tabu_list[class] # <<>>
              /\ Last(tabu_list[class]) = Last(history)
        /\ \A i, j \in DOMAIN history :
              (i < j /\ j - i <= maxlen[class]) => history[i] # history[j]
        /\ \A i \in DOMAIN history :
              Len(history) - i < maxlen[class] => history[i] \in tabu_set[class]

(***************************************************************************)
(* C18's case: a signature was selected, maxlen signatures were pushed     *)
(* after it, and it was then selected again.                               *)
(***************************************************************************)
C18_Witness ==
    \E class \in {"Swap", "SegmentShift"} :
        \E i, j \in DOMAIN selected[class] :
            /\ j - i = maxlen[class] + 1
            /\ selected[class][i] = selected[class][j]
            /\ selected[class][j] \in tabu_set[class]

(***************************************************************************)
(* The same for Swap alone.                                                *)
(***************************************************************************)
SwapSelectedAgain ==
    \E i, j \in DOMAIN selected["Swap"] :
        i < j /\ selected["Swap"][i] = selected["Swap"][j]
====
